---- MODULE Spec2Model ----
(***************************************************************************)
(* The live Telegram feed of HomePage: the feed effect with its SignalR     *)
(* handshake, its polling fallback and the telegramMsgs buffer.  The effect *)
(* is the same in both source files; they differ in the two updaters of the *)
(* buffer.  telegramMsgs is the buffer of src/unnamed/part_000 (which       *)
(* de-duplicates by id), pageMsgs the buffer of src/src/app/page.tsx under  *)
(* the same events.  The view counts and flash counters of the ads, which  *)
(* handleViewClick maintains, are a second part with its own specification. *)
(* Further parts, each with its own specification: polling a server list    *)
(* that has settled, the flash state of the AdRow components, the history   *)
(* tab of SitePanel, and the user cache behind fetchUser.                   *)
(***************************************************************************)
EXTENDS Integers, Sequences, FiniteSets, TLC

\* ------------------------------------------------------------------ bounds
MaxListLen == 2     \* longest poll result enumerated message by message
MaxOver == 2        \* how far a long poll result overshoots the capacity
MaxUpdates == 2     \* setTelegramMsgs calls (push events and poll results) in a run
MaxInflight == 1    \* poll fetches awaiting their response at the same time
MaxCloseNotes == 2  \* close notifications the connection delivers in a run
MaxFails == 2       \* poll fetches that fail in a run
MaxCount == 2       \* largest view count the server reports: 0..MaxCount
MaxClicks == 2      \* view clicks in a run
MaxHistory == 2     \* history fetches awaiting their response at the same time
MaxTries == 2       \* requests issued for one user id in a run

\* ------------------------------------------------------- program constants
Capacity == 200     \* updated.length > 200 ? updated.slice(-200) : updated

Null == 0           \* let pollTimer: any = null; interval ids are positive

\* --------------------------------------------------------------- messages
\* A wire message {id?, text, senderName, sentAt}.  id is <<>> when the server
\* omitted it and <<n>> otherwise.  A text is kept as its first ten characters
\* (pre) and the rest (suf), so that slice(0, 10) is a real projection.
NoId == <<>>
Hello == [pre |-> "hello", suf |-> ""]
HelloX == [pre |-> "hello", suf |-> "x"]

Wire(id, text) ==
  [id |-> id, sentAt |-> "t1", senderName |-> "s1", text |-> text]

\* Two messages with explicit ids and equal content, and two messages without
\* an id that differ only after the tenth character of their text.
WireMsgs == {Wire(<<1>>, Hello), Wire(<<2>>, Hello), Wire(NoId, Hello), Wire(NoId, HelloX)}

LongList(a, n) == [k \in 1..n |-> Wire(<<a + k - 1>>, Hello)]

SeqsUpTo(S, n) == UNION {[1..k -> S] : k \in 0..n}

\* What GET /api/telegram/messages may answer.  For the feed effect: nothing,
\* one message, or one message twice.  For the buffer on its own: any short list (repetitions
\* included), or a long run of consecutive server ids around the capacity.
FeedPollResults == SeqsUpTo(WireMsgs, 1) \cup {<<m, m>> : m \in WireMsgs}

PollResults ==
  SeqsUpTo(WireMsgs, MaxListLen)
    \cup {LongList(a, n) : a \in {1, 3},
                           n \in {Capacity - 1, Capacity + MaxOver}}

\* String(text).slice(0, 10)
Slice10(text) == text.pre

\* String(m.id || `${m.sentAt}-${m.senderName}-${String(m.text).slice(0, 10)}`)
\* (|| also replaces the falsy id 0)
PollId(m) ==
  IF m.id = NoId \/ m.id = <<0>>
    THEN <<"composite", m.sentAt, m.senderName, Slice10(m.text)>>
    ELSE <<"num", m.id[1]>>

\* String(p.id ?? `${Date.now()}-${Math.random()}`): a fresh string per event
PushId(p, nonce) ==
  IF p.id = NoId THEN <<"random", nonce>> ELSE <<"num", p.id[1]>>

Entry(id, m) ==
  [id |-> id, text |-> m.text, senderName |-> m.senderName, sentAt |-> m.sentAt]

\* Array.prototype.slice(-n)
SliceFirst(s, n) ==
  IF Len(s) > n THEN SubSeq(s, 1, n) ELSE s

SliceLast(s, n) ==
  IF Len(s) > n THEN SubSeq(s, Len(s) - n + 1, Len(s)) ELSE s

Ids(s) == {s[i].id : i \in 1..Len(s)}

PollUpdaterNoTrim(prev, list) ==
  LET existingIds == {prev[i].id : i \in 1..Len(prev)}
      IsNew(m) == PollId(m) \notin existingIds
      kept == SelectSeq(list, IsNew)
  IN prev \o [k \in 1..Len(kept) |-> Entry(PollId(kept[k]), kept[k])]

\* The updater of the poll tick: filter against the ids of prev, map, append,
\* trim.
PollUpdater(prev, list) ==
  LET existingIds == Ids(prev)
      IsNew(m) == PollId(m) \notin existingIds
      kept == SelectSeq(list, IsNew)
      newMsgs == [k \in 1..Len(kept) |-> Entry(PollId(kept[k]), kept[k])]
      updated == prev \o newMsgs
  IN IF Len(newMsgs) = 0 THEN prev
     ELSE IF Len(updated) > Capacity THEN SliceLast(updated, Capacity) ELSE updated

PushUpdaterByContent(prev, newMsg) ==
  LET updated == Append(prev, newMsg)
      Same(m) == m.text = newMsg.text /\ m.senderName = newMsg.senderName
                   /\ m.sentAt = newMsg.sentAt
  IN IF \E i \in 1..Len(prev) : Same(prev[i]) THEN prev
     ELSE IF Len(updated) > Capacity THEN SliceLast(updated, Capacity) ELSE updated

PushUpdaterNoDedup(prev, newMsg) ==
  LET updated == Append(prev, newMsg)
  IN IF Len(updated) > Capacity THEN SliceLast(updated, Capacity) ELSE updated

\* The updater of onTelegramMessage.
PushUpdater(prev, newMsg) ==
  LET updated == Append(prev, newMsg)
  IN IF \E i \in 1..Len(prev) : prev[i].id = newMsg.id THEN prev
     ELSE IF Len(updated) > Capacity THEN SliceLast(updated, Capacity) ELSE updated

\* The same two updaters in src/src/app/page.tsx: the poll replaces the buffer
\* by the mapped list, with ids `${idx}-${m.sentAt}-${m.senderName}-${m.text}`;
\* the push appends under a fresh id.
PagePollId(idx, m) == <<"indexed", idx, m.sentAt, m.senderName, m.text>>

PagePollUpdater(prev, list) ==
  LET mapped == [k \in 1..Len(list) |-> Entry(PagePollId(k - 1, list[k]), list[k])]
  IN SliceLast(mapped, Capacity)

PagePushUpdater(prev, newMsg) ==
  LET updated == Append(prev, newMsg)
  IN IF Len(updated) > Capacity THEN SliceLast(updated, Capacity) ELSE updated

\* ------------------------------------------------------------------ state
VARIABLES
  telegramMsgs,   \* the buffer: useState<TelegramMsg[]>([])
  pageMsgs,       \* the same state in src/src/app/page.tsx
  mounted,        \* HomePage is mounted: React applies its state updates
  setupPc,        \* position of the async setup: "start", "invoke", "done", "failed"
  connState,      \* the SignalR connection: "connecting", "open", "closed", "failed"
  oncloseReg,     \* conn.onclose(...) was called
  listenerReg,    \* onTelegramMessage is registered for "TelegramMessage"
  unsub,          \* let unsub: TRUE once assigned
  pollTimer,      \* let pollTimer: Null or the id of an interval
  timers,         \* the intervals that exist (set and not cleared)
  nextTimer,      \* the id setInterval returns next
  inflight,       \* poll fetches awaiting their response
  tornDown,       \* the effect's cleanup has run
  nonce,          \* stands for the value of `${Date.now()}-${Math.random()}`
  offered,        \* history: the ids of all candidates handed to an updater, in order
  nUpdates,       \* history: number of setTelegramMsgs calls
  nCloseNotes,    \* history: number of close notifications delivered
  nFails,         \* history: number of poll fetches that failed
  issuedPrev,     \* history: the buffer when the latest poll fetch was issued
  ads,            \* useState<Ad[]>([]): the ads, each with its id and viewCount
  adsPc,          \* GET /api/ads: "loading" or "loaded"
  flashCounts,    \* useState<Record<number, number>>({})
  posts,          \* view POSTs awaiting their response, each with the ad it was called with
  lastResponse,   \* history: the view POST that settled last and what the server answered
  nClicks,        \* history: number of view clicks
  serverStable,   \* the server's recent-message list has stopped changing
  serverList,     \* that list: what every later GET /api/telegram/messages answers
  prevFlash,      \* AdRow of each ad: useRef(0), the flashCount last flashed for
  isFlashing,     \* AdRow of each ad: useState(false)
  flashColor,     \* AdRow of each ad: useState<"green" | "blue">("green")
  flashTimers,    \* AdRow of each ad: pending 2000 ms timeouts, oldest first, each
                  \* with the flashCount it was scheduled for
  isNew,          \* AdRow of each ad: the prop isNew
  greenTimers,    \* AdRow of each ad: the pending timeouts of the isNew effect
  activeTab,      \* SitePanel: useState<"live" | "yesterday">("live")
  historyMsgs,    \* SitePanel: useState<TelegramMsg[]>([])
  historyLoading, \* SitePanel: useState(false)
  historyFetches, \* SitePanel: history GETs awaiting their response
  fetchedUserIds, \* useRef<Set<number>>(new Set())
  userReqs,       \* GET /api/users/{id} awaiting their response, per user id
  users,          \* useState<Record<number, UserInfo>>({})
  userTries       \* history: requests issued so far, per user id

vars == <<telegramMsgs, pageMsgs, mounted, setupPc, connState, oncloseReg, listenerReg,
          unsub, pollTimer, timers, nextTimer, inflight, tornDown, nonce,
          offered, nUpdates, nCloseNotes, nFails, issuedPrev,
          ads, adsPc, flashCounts, posts, lastResponse, nClicks,
          serverStable, serverList,
          prevFlash, isFlashing, flashColor, flashTimers, isNew, greenTimers,
          activeTab, historyMsgs, historyLoading, historyFetches,
          fetchedUserIds, userReqs, users, userTries>>

transport == <<setupPc, connState, oncloseReg, listenerReg, unsub, pollTimer,
               timers, nextTimer, tornDown>>

buffer == <<telegramMsgs, pageMsgs, nonce, offered, nUpdates>>

history == <<nCloseNotes, nFails, issuedPrev>>

feed == <<transport, buffer, history, mounted, inflight>>

view == <<ads, adsPc, flashCounts, posts, lastResponse, nClicks>>

server == <<serverStable, serverList>>

row == <<prevFlash, isFlashing, flashColor, flashTimers, isNew, greenTimers>>

panel == <<activeTab, historyMsgs, historyLoading, historyFetches>>

userCache == <<fetchedUserIds, userReqs, users, userTries>>

\* The state outside the feed effect and handleViewClick.
widgets == <<server, row, panel, userCache>>

\* The ads whose rows are shown, and the users they belong to.
AdIds == {1, 2}

UserIds == {1, 2, 3}

Init ==
  /\ telegramMsgs = <<>>
  /\ pageMsgs = <<>>
  /\ mounted = TRUE
  /\ setupPc = "start"
  /\ connState = "connecting"
  /\ oncloseReg = FALSE
  /\ listenerReg = FALSE
  /\ unsub = FALSE
  /\ pollTimer = Null
  /\ timers = {}
  /\ nextTimer = 1
  /\ inflight = 0
  /\ tornDown = FALSE
  /\ nonce = 0
  /\ offered = <<>>
  /\ nUpdates = 0
  /\ nCloseNotes = 0
  /\ nFails = 0
  /\ issuedPrev = <<>>
  /\ ads = <<>>
  /\ adsPc = "loading"
  /\ flashCounts = <<>>
  /\ posts = <<>>
  /\ lastResponse = [adId |-> 0, ok |-> FALSE, data |-> <<>>, sent |-> 0]
  /\ nClicks = 0
  /\ serverStable = FALSE
  /\ serverList = <<>>
  /\ prevFlash = [e \in AdIds |-> 0]
  /\ isFlashing = [e \in AdIds |-> FALSE]
  /\ flashColor = [e \in AdIds |-> "green"]
  /\ flashTimers = [e \in AdIds |-> <<>>]
  /\ isNew = [e \in AdIds |-> FALSE]
  /\ greenTimers = [e \in AdIds |-> {}]
  /\ activeTab = "live"
  /\ historyMsgs = <<>>
  /\ historyLoading = FALSE
  /\ historyFetches = 0
  /\ fetchedUserIds = {}
  /\ userReqs = [u \in UserIds |-> 0]
  /\ users = <<>>
  /\ userTries = [u \in UserIds |-> 0]

\* ------------------------------------------------------------ operations
\* startTelegramPolling: if (pollTimer) return; pollTimer = setInterval(...)
StartsTimerInverted(pt) == pt # Null

StartsTimerAlways(pt) == TRUE

StartsTimer(pt) == pt = Null

startTelegramPolling ==
  IF StartsTimer(pollTimer)
    THEN /\ pollTimer' = nextTimer
         /\ timers' = timers \cup {nextTimer}
         /\ nextTimer' = nextTimer + 1
    ELSE UNCHANGED <<pollTimer, timers, nextTimer>>

\* stopTelegramPolling: if (pollTimer) clearInterval(pollTimer); pollTimer = null
stopTelegramPolling ==
  /\ timers' = IF pollTimer # Null THEN timers \ {pollTimer} ELSE timers
  /\ pollTimer' = Null
  /\ UNCHANGED nextTimer

\* setTelegramMsgs(updater): React runs the updater on the current state of a
\* mounted component and drops the update of an unmounted one.
SetTelegramMsgs(next, pageNext, ids) ==
  /\ nUpdates < MaxUpdates
  /\ nUpdates' = nUpdates + 1
  /\ IF mounted
       THEN /\ telegramMsgs' = next
            /\ pageMsgs' = pageNext
            /\ offered' = offered \o ids
       ELSE UNCHANGED <<telegramMsgs, pageMsgs, offered>>

\* The connection that startSignalR() hands out (lib/signalr): the handshake
\* resolves or rejects once, and an open connection may close, which runs the
\* callbacks registered with onclose in the same step.
startSignalRResolves == connState = "connecting" /\ connState' = "open"

startSignalRRejects == connState = "connecting" /\ connState' = "failed"

HubCloses == connState = "open" /\ connState' = "closed"

HandshakeSucceedsNoListener ==
  /\ setupPc = "start"
  /\ startSignalRResolves
  /\ stopTelegramPolling
  /\ oncloseReg' = TRUE
  /\ setupPc' = "invoke"
  /\ UNCHANGED <<listenerReg, unsub, tornDown, mounted, inflight>>
  /\ UNCHANGED buffer
  /\ UNCHANGED history
  /\ UNCHANGED <<view, widgets>>

HandshakeSucceedsStartsPolling ==
  /\ setupPc = "start"
  /\ startSignalRResolves
  /\ startTelegramPolling
  /\ oncloseReg' = TRUE
  /\ listenerReg' = TRUE
  /\ setupPc' = "invoke"
  /\ UNCHANGED <<unsub, tornDown, mounted, inflight>>
  /\ UNCHANGED buffer
  /\ UNCHANGED history
  /\ UNCHANGED <<view, widgets>>

\* await startSignalR() resolves: stop polling, register onclose and the
\* TelegramMessage handler, then await conn.invoke("GetOnlineCount").
HandshakeSucceeds ==
  /\ setupPc = "start"
  /\ startSignalRResolves
  /\ stopTelegramPolling
  /\ oncloseReg' = TRUE
  /\ listenerReg' = TRUE
  /\ setupPc' = "invoke"
  /\ UNCHANGED <<unsub, tornDown, mounted, inflight>>
  /\ UNCHANGED buffer
  /\ UNCHANGED history
  /\ UNCHANGED <<view, widgets>>

HandshakeFailsSilently ==
  /\ setupPc = "start"
  /\ startSignalRRejects
  /\ setupPc' = "failed"
  /\ UNCHANGED <<oncloseReg, listenerReg, unsub, pollTimer, timers, nextTimer,
                 tornDown, mounted, inflight>>
  /\ UNCHANGED buffer
  /\ UNCHANGED history
  /\ UNCHANGED <<view, widgets>>

\* await startSignalR() rejects: the catch branch starts polling.
HandshakeFails ==
  /\ setupPc = "start"
  /\ startSignalRRejects
  /\ startTelegramPolling
  /\ setupPc' = "failed"
  /\ UNCHANGED <<oncloseReg, listenerReg, unsub, tornDown, mounted, inflight>>
  /\ UNCHANGED buffer
  /\ UNCHANGED history
  /\ UNCHANGED <<view, widgets>>

InvokeSettlesStopsPolling ==
  /\ setupPc = "invoke"
  /\ setupPc' = "done"
  /\ unsub' = TRUE
  /\ stopTelegramPolling
  /\ UNCHANGED <<connState, oncloseReg, listenerReg, tornDown, mounted, inflight>>
  /\ UNCHANGED buffer
  /\ UNCHANGED history
  /\ UNCHANGED <<view, widgets>>

\* conn.invoke("GetOnlineCount") settles either way (catch {}): unsub is assigned.
InvokeSettles ==
  /\ setupPc = "invoke"
  /\ setupPc' = "done"
  /\ unsub' = TRUE
  /\ UNCHANGED <<connState, oncloseReg, listenerReg, pollTimer, timers,
                 nextTimer, tornDown, mounted, inflight>>
  /\ UNCHANGED buffer
  /\ UNCHANGED history
  /\ UNCHANGED <<view, widgets>>

ConnectionClosesSilently ==
  /\ HubCloses
  /\ UNCHANGED <<pollTimer, timers, nextTimer>>
  /\ UNCHANGED <<setupPc, oncloseReg, listenerReg, unsub, tornDown, mounted,
                 inflight>>
  /\ UNCHANGED buffer
  /\ nCloseNotes' = nCloseNotes + 1
  /\ UNCHANGED <<nFails, issuedPrev>>
  /\ UNCHANGED <<view, widgets>>

\* The connection closes and runs the registered onclose callback:
\* startTelegramPolling().
ConnectionCloses ==
  /\ HubCloses
  /\ IF oncloseReg
       THEN startTelegramPolling
       ELSE UNCHANGED <<pollTimer, timers, nextTimer>>
  /\ UNCHANGED <<setupPc, oncloseReg, listenerReg, unsub, tornDown, mounted,
                 inflight>>
  /\ UNCHANGED buffer
  /\ nCloseNotes' = nCloseNotes + 1
  /\ UNCHANGED <<nFails, issuedPrev>>
  /\ UNCHANGED <<view, widgets>>

\* A connection that has closed delivers its close notification once more
\* (lib/signalr may stop a connection that it restarted).
HubClosedAgain == connState = "closed" /\ UNCHANGED connState

\* The onclose callback runs again: startTelegramPolling().
ConnectionClosesAgain ==
  /\ HubClosedAgain
  /\ nCloseNotes < MaxCloseNotes
  /\ nCloseNotes' = nCloseNotes + 1
  /\ IF oncloseReg
       THEN startTelegramPolling
       ELSE UNCHANGED <<pollTimer, timers, nextTimer>>
  /\ UNCHANGED <<setupPc, oncloseReg, listenerReg, unsub, tornDown, mounted,
                 inflight>>
  /\ UNCHANGED buffer
  /\ UNCHANGED <<nFails, issuedPrev>>
  /\ UNCHANGED <<view, widgets>>

\* onTelegramMessage(p)
onTelegramMessage(p) ==
  LET newMsg == Entry(PushId(p, nonce), p)
  IN /\ SetTelegramMsgs(PushUpdater(telegramMsgs, newMsg),
                        PagePushUpdater(pageMsgs, [newMsg EXCEPT !.id = <<"random", nonce>>]),
                        <<newMsg.id>>)
     /\ nonce' = nonce + 1

onPollResultStaleDiff(list) ==
  LET stale == PollUpdaterNoTrim(issuedPrev, list)
      added == SubSeq(stale, Len(issuedPrev) + 1, Len(stale))
  IN /\ SetTelegramMsgs(SliceLast(telegramMsgs \o added, Capacity),
                        PagePollUpdater(pageMsgs, list),
                        [k \in 1..Len(list) |-> PollId(list[k])])
     /\ UNCHANGED nonce

\* The body of the interval callback after the GET resolved with list.
onPollResult(list) ==
  /\ SetTelegramMsgs(PollUpdater(telegramMsgs, list),
                     PagePollUpdater(pageMsgs, list),
                     [k \in 1..Len(list) |-> PollId(list[k])])
  /\ UNCHANGED nonce

\* The hub delivers a TelegramMessage event to the registered handler.
PushMessage ==
  /\ connState = "open"
  /\ listenerReg
  /\ \E p \in WireMsgs : onTelegramMessage(p)
  /\ UNCHANGED <<mounted, inflight>>
  /\ UNCHANGED transport
  /\ UNCHANGED history
  /\ UNCHANGED <<view, widgets>>

\* An interval that exists fires: the callback issues the GET and awaits it.
PollTick ==
  /\ timers # {}
  /\ inflight < MaxInflight
  /\ inflight' = inflight + 1
  /\ UNCHANGED mounted
  /\ UNCHANGED transport
  /\ UNCHANGED buffer
  /\ issuedPrev' = telegramMsgs
  /\ UNCHANGED <<nCloseNotes, nFails>>
  /\ UNCHANGED <<view, widgets>>

\* The GET resolves with a list: the updater is applied.
PollResolves ==
  /\ inflight > 0
  /\ inflight' = inflight - 1
  /\ \E list \in FeedPollResults : onPollResult(list)
  /\ UNCHANGED mounted
  /\ UNCHANGED transport
  /\ UNCHANGED history
  /\ UNCHANGED <<view, widgets>>

PollFailsStopsTimer ==
  /\ inflight > 0
  /\ inflight' = inflight - 1
  /\ stopTelegramPolling
  /\ UNCHANGED <<setupPc, connState, oncloseReg, listenerReg, unsub, tornDown>>
  /\ UNCHANGED mounted
  /\ UNCHANGED buffer
  /\ nFails < MaxFails
  /\ nFails' = nFails + 1
  /\ UNCHANGED <<nCloseNotes, issuedPrev>>
  /\ UNCHANGED <<view, widgets>>

\* The GET rejects: console.log("Polling error:", e).
PollFails ==
  /\ inflight > 0
  /\ inflight' = inflight - 1
  /\ UNCHANGED mounted
  /\ UNCHANGED transport
  /\ UNCHANGED buffer
  /\ nFails < MaxFails
  /\ nFails' = nFails + 1
  /\ UNCHANGED <<nCloseNotes, issuedPrev>>
  /\ UNCHANGED <<view, widgets>>

\* The effect's cleanup: unsub?.(); stopTelegramPolling().  It runs when
\* HomePage unmounts, and also when React re-runs the effect of a component
\* that stays mounted.
Teardown ==
  /\ ~tornDown
  /\ tornDown' = TRUE
  /\ listenerReg' = IF unsub THEN FALSE ELSE listenerReg
  /\ stopTelegramPolling
  /\ mounted' \in BOOLEAN
  /\ UNCHANGED <<setupPc, connState, oncloseReg, unsub, inflight>>
  /\ UNCHANGED buffer
  /\ UNCHANGED history
  /\ UNCHANGED <<view, widgets>>

Next ==
  \/ HandshakeSucceeds
  \/ HandshakeFails
  \/ InvokeSettles
  \/ ConnectionCloses
  \/ ConnectionClosesAgain
  \/ PushMessage
  \/ PollTick
  \/ PollResolves
  \/ PollFails
  \/ Teardown

Spec == Init /\ [][Next]_vars

\* The feed effect with a handshake that settles: the promise of
\* startSignalR() resolves or rejects, and the continuation of the await runs.
SpecLive == Spec /\ WF_vars(HandshakeSucceeds \/ HandshakeFails)

\* ------------------------------------------------- the buffer on its own
\* Every sequence of calls of the two updaters, whatever the transport does.
BufPush ==
  /\ \E p \in WireMsgs : onTelegramMessage(p)
  /\ UNCHANGED <<mounted, inflight>>
  /\ UNCHANGED transport
  /\ UNCHANGED history
  /\ UNCHANGED <<view, widgets>>

BufPoll ==
  /\ \E list \in PollResults : onPollResult(list)
  /\ UNCHANGED <<mounted, inflight>>
  /\ UNCHANGED transport
  /\ UNCHANGED history
  /\ UNCHANGED <<view, widgets>>

BufNext ==
  \/ BufPush
  \/ BufPoll

SpecBuf == Init /\ [][BufNext]_vars

\* ------------------------------------- the updaters with fetches in flight
\* Push events and poll fetches in any interleaving: a fetch is issued, push
\* events may land while it is in flight, and its result is applied when it
\* resolves.
RaceTick ==
  /\ inflight < MaxInflight
  /\ inflight' = inflight + 1
  /\ issuedPrev' = telegramMsgs
  /\ UNCHANGED <<nCloseNotes, nFails>>
  /\ UNCHANGED mounted
  /\ UNCHANGED transport
  /\ UNCHANGED buffer
  /\ UNCHANGED <<view, widgets>>

RaceResolve ==
  /\ inflight > 0
  /\ inflight' = inflight - 1
  /\ \E list \in FeedPollResults : onPollResult(list)
  /\ UNCHANGED mounted
  /\ UNCHANGED transport
  /\ UNCHANGED history
  /\ UNCHANGED <<view, widgets>>

RaceNext ==
  \/ BufPush
  \/ RaceTick
  \/ RaceResolve

SpecRace == Init /\ [][RaceNext]_vars

\* ------------------------------------------------------- the view counts
\* handleViewClick and the ads it works on, while HomePage is mounted (the
\* router.push that ends the handler leaves the page).
Ad(id, viewCount) == [id |-> id, viewCount |-> viewCount]

\* What GET /api/ads may answer: up to two ads with different ids.
AdLists ==
  {<<>>}
    \cup {<<Ad(e, c)>> : e \in AdIds, c \in 0..MaxCount}
    \cup {<<Ad(e, c), Ad(f, d)>> : <<e, f>> \in {p \in AdIds \X AdIds : p[1] # p[2]},
                                   c \in 0..MaxCount, d \in 0..MaxCount}

\* What POST /api/ads/{id}/view may answer: {viewCount} or a body without it.
ViewResponses == {<<>>} \cup {<<c>> : c \in 0..MaxCount}

\* prev[ad.id] ?? 0
FlashOf(f, e) == IF e \in DOMAIN f THEN f[e] ELSE 0

BumpFlashToOne(prev, e) ==
  [x \in DOMAIN prev \cup {e} |-> IF x = e THEN 1 ELSE prev[x]]

\* (prev) => ({ ...prev, [ad.id]: (prev[ad.id] ?? 0) + 1 })
BumpFlash(prev, e) ==
  [x \in DOMAIN prev \cup {e} |-> IF x = e THEN FlashOf(prev, e) + 1 ELSE prev[x]]

NewCountNeverLower(data, ad) ==
  IF data = <<>> \/ data[1] < ad.viewCount + 1 THEN ad.viewCount + 1 ELSE data[1]

\* res.data?.viewCount ?? Number(ad.viewCount) + 1
NewCount(data, ad) == IF data = <<>> THEN ad.viewCount + 1 ELSE data[1]

WithCountAll(prev, e, newCount) ==
  [i \in 1..Len(prev) |-> [prev[i] EXCEPT !.viewCount = newCount]]

\* prev.map((x) => (x.id === ad.id ? { ...x, viewCount: newCount } : x))
WithCount(prev, e, newCount) ==
  [i \in 1..Len(prev) |->
     IF prev[i].id = e THEN [prev[i] EXCEPT !.viewCount = newCount] ELSE prev[i]]

Without(s, k) == [i \in 1..Len(s) - 1 |-> IF i < k THEN s[i] ELSE s[i + 1]]

\* api.get("/api/ads").then: setAds(list)
AdsLoaded ==
  /\ adsPc = "loading"
  /\ adsPc' = "loaded"
  /\ \E list \in AdLists : ads' = list
  /\ UNCHANGED <<flashCounts, posts, lastResponse, nClicks>>
  /\ UNCHANGED <<feed, widgets>>

ViewClickOptimistic(i) ==
  /\ i \in 1..Len(ads)
  /\ nClicks < MaxClicks
  /\ nClicks' = nClicks + 1
  /\ flashCounts' = BumpFlash(flashCounts, ads[i].id)
  /\ posts' = Append(posts, ads[i])
  /\ ads' = WithCount(ads, ads[i].id, ads[i].viewCount + 1)
  /\ UNCHANGED <<adsPc, lastResponse>>
  /\ UNCHANGED <<feed, widgets>>

\* handleViewClick(ad) up to its await: the click on the i-th ad shown raises
\* the flash counter and sends the POST.
ViewClick(i) ==
  /\ i \in 1..Len(ads)
  /\ nClicks < MaxClicks
  /\ nClicks' = nClicks + 1
  /\ flashCounts' = BumpFlash(flashCounts, ads[i].id)
  /\ posts' = Append(posts, ads[i])
  /\ UNCHANGED <<ads, adsPc, lastResponse>>
  /\ UNCHANGED <<feed, widgets>>

\* The POST of the k-th pending call resolves: setAds with the new count.
PostSucceeds(k) ==
  /\ k \in 1..Len(posts)
  /\ \E data \in ViewResponses :
       /\ ads' = WithCount(ads, posts[k].id, NewCount(data, posts[k]))
       /\ lastResponse' = [adId |-> posts[k].id, ok |-> TRUE, data |-> data,
                           sent |-> posts[k].viewCount]
  /\ posts' = Without(posts, k)
  /\ UNCHANGED <<adsPc, flashCounts, nClicks>>
  /\ UNCHANGED <<feed, widgets>>

PostFailsAppliesGuess(k) ==
  /\ k \in 1..Len(posts)
  /\ ads' = WithCount(ads, posts[k].id, posts[k].viewCount + 1)
  /\ lastResponse' = [adId |-> posts[k].id, ok |-> FALSE, data |-> <<>>,
                      sent |-> posts[k].viewCount]
  /\ posts' = Without(posts, k)
  /\ UNCHANGED <<adsPc, flashCounts, nClicks>>
  /\ UNCHANGED <<feed, widgets>>

\* The POST of the k-th pending call rejects: catch {}.
PostFails(k) ==
  /\ k \in 1..Len(posts)
  /\ lastResponse' = [adId |-> posts[k].id, ok |-> FALSE, data |-> <<>>,
                      sent |-> posts[k].viewCount]
  /\ posts' = Without(posts, k)
  /\ UNCHANGED <<ads, adsPc, flashCounts, nClicks>>
  /\ UNCHANGED <<feed, widgets>>

ViewNext ==
  \/ AdsLoaded
  \/ \E i \in 1..Len(ads) : ViewClick(i)
  \/ \E k \in 1..Len(posts) : PostSucceeds(k)
  \/ \E k \in 1..Len(posts) : PostFails(k)

SpecView == Init /\ [][ViewNext]_vars

\* --------------------------------------- polling a list that has settled
\* Polling mode after a failed handshake, with a server whose recent-message
\* list stops changing: from then on every tick of the interval gets the same
\* list and applies the updater to it.
ServerSettles ==
  /\ ~serverStable
  /\ serverStable' = TRUE
  /\ serverList' \in PollResults
  /\ UNCHANGED feed
  /\ UNCHANGED <<view, row, panel, userCache>>

\* One tick of the interval whose GET resolves with serverList.  The history
\* of the bounded runs (offered, nUpdates) is not continued: ticks go on.
StablePoll ==
  /\ serverStable
  /\ telegramMsgs' = PollUpdater(telegramMsgs, serverList)
  /\ pageMsgs' = PagePollUpdater(pageMsgs, serverList)
  /\ UNCHANGED <<nonce, offered, nUpdates, mounted, inflight>>
  /\ UNCHANGED transport
  /\ UNCHANGED history
  /\ UNCHANGED <<view, widgets>>

StableNext ==
  \/ ServerSettles
  \/ StablePoll

\* setInterval(..., 2000) keeps firing.
SpecStable == Init /\ [][StableNext]_vars /\ WF_vars(StablePoll)

\* ------------------------------------------------------------ the ad rows
\* AdRow, one per ad: its two effects and the timeouts they schedule.  The
\* timeouts of the flashCount effect all wait 2000 ms, so they fire in the
\* order in which they were scheduled; none of them is ever cleared.
\* The body of the flashCount effect, run with the prop flashCount = fc.
RowFlashEffect(e, fc) ==
  IF fc > 0 /\ fc # prevFlash[e]
    THEN /\ prevFlash' = [prevFlash EXCEPT ![e] = fc]
         /\ flashColor' = [flashColor EXCEPT ![e] = "blue"]
         /\ isFlashing' = [isFlashing EXCEPT ![e] = TRUE]
         /\ flashTimers' = [flashTimers EXCEPT ![e] = Append(@, fc)]
    ELSE UNCHANGED <<prevFlash, flashColor, isFlashing, flashTimers>>

\* A view click raises flashCounts[e]; the row of e renders with the new prop
\* and its effect runs.
RowFlashCountRaised(e) ==
  /\ FlashOf(flashCounts, e) < MaxClicks
  /\ flashCounts' = BumpFlash(flashCounts, e)
  /\ RowFlashEffect(e, FlashOf(flashCounts, e) + 1)
  /\ UNCHANGED <<isNew, greenTimers>>
  /\ UNCHANGED <<ads, adsPc, posts, lastResponse, nClicks>>
  /\ UNCHANGED <<feed, server, panel, userCache>>

\* setTimeout(() => setIsFlashing(false), 2000): the oldest one fires.
RowFlashTimerFires(e) ==
  /\ flashTimers[e] # <<>>
  /\ flashTimers' = [flashTimers EXCEPT ![e] = Tail(@)]
  /\ isFlashing' = [isFlashing EXCEPT ![e] = FALSE]
  /\ UNCHANGED <<prevFlash, flashColor, isNew, greenTimers>>
  /\ UNCHANGED <<feed, view, server, panel, userCache>>

\* The prop isNew becomes true: the isNew effect schedules t1 (650 ms) and
\* t2 (2300 ms).
RowBecomesNew(e) ==
  /\ ~isNew[e]
  /\ isNew' = [isNew EXCEPT ![e] = TRUE]
  /\ greenTimers' = [greenTimers EXCEPT ![e] = {"t1", "t2"}]
  /\ UNCHANGED <<prevFlash, isFlashing, flashColor, flashTimers>>
  /\ UNCHANGED <<feed, view, server, panel, userCache>>

\* The prop isNew becomes false: the cleanup clears t1 and t2.
RowNoLongerNew(e) ==
  /\ isNew[e]
  /\ isNew' = [isNew EXCEPT ![e] = FALSE]
  /\ greenTimers' = [greenTimers EXCEPT ![e] = {}]
  /\ UNCHANGED <<prevFlash, isFlashing, flashColor, flashTimers>>
  /\ UNCHANGED <<feed, view, server, panel, userCache>>

\* t1 fires: setFlashColor("green"); setIsFlashing(true)
RowGreenStarts(e) ==
  /\ "t1" \in greenTimers[e]
  /\ greenTimers' = [greenTimers EXCEPT ![e] = @ \ {"t1"}]
  /\ flashColor' = [flashColor EXCEPT ![e] = "green"]
  /\ isFlashing' = [isFlashing EXCEPT ![e] = TRUE]
  /\ UNCHANGED <<prevFlash, flashTimers, isNew>>
  /\ UNCHANGED <<feed, view, server, panel, userCache>>

\* t2 fires, after t1: setIsFlashing(false)
RowGreenEnds(e) ==
  /\ greenTimers[e] = {"t2"}
  /\ greenTimers' = [greenTimers EXCEPT ![e] = {}]
  /\ isFlashing' = [isFlashing EXCEPT ![e] = FALSE]
  /\ UNCHANGED <<prevFlash, flashColor, flashTimers, isNew>>
  /\ UNCHANGED <<feed, view, server, panel, userCache>>

RowNext ==
  \/ \E e \in AdIds : RowFlashCountRaised(e)
  \/ \E e \in AdIds : RowFlashTimerFires(e)
  \/ \E e \in AdIds : RowBecomesNew(e)
  \/ \E e \in AdIds : RowNoLongerNew(e)
  \/ \E e \in AdIds : RowGreenStarts(e)
  \/ \E e \in AdIds : RowGreenEnds(e)

SpecRow == Init /\ [][RowNext]_vars

\* ------------------------------------------------- the panel's history
\* SitePanel: the tabs and the effect that loads yesterday's messages.
HistoryResults == SeqsUpTo(WireMsgs, MaxListLen)

\* (list as any[]).map((m) => ({ id: String(m.id || `...`), ... }))
HistoryMapped(list) == [k \in 1..Len(list) |-> Entry(PollId(list[k]), list[k])]

\* setActiveTab(t) with another tab; the effect on [activeTab] runs: on the
\* live tab it returns, on the yesterday tab it sets historyLoading and sends
\* the GET.
SelectTab(t) ==
  /\ t # activeTab
  /\ t = "yesterday" => historyFetches < MaxHistory
  /\ activeTab' = t
  /\ IF t = "yesterday"
       THEN /\ historyLoading' = TRUE
            /\ historyFetches' = historyFetches + 1
       ELSE UNCHANGED <<historyLoading, historyFetches>>
  /\ UNCHANGED historyMsgs
  /\ UNCHANGED <<feed, view, server, row, userCache>>

\* .then: setHistoryMsgs(mapped); .finally: setHistoryLoading(false)
HistoryResolves ==
  /\ historyFetches > 0
  /\ historyFetches' = historyFetches - 1
  /\ \E list \in HistoryResults : historyMsgs' = HistoryMapped(list)
  /\ historyLoading' = FALSE
  /\ UNCHANGED activeTab
  /\ UNCHANGED <<feed, view, server, row, userCache>>

\* .catch: setHistoryMsgs([]); .finally: setHistoryLoading(false)
HistoryFails ==
  /\ historyFetches > 0
  /\ historyFetches' = historyFetches - 1
  /\ historyMsgs' = <<>>
  /\ historyLoading' = FALSE
  /\ UNCHANGED activeTab
  /\ UNCHANGED <<feed, view, server, row, userCache>>

PanelNext ==
  \/ \E t \in {"live", "yesterday"} : SelectTab(t)
  \/ HistoryResolves
  \/ HistoryFails

SpecPanel == Init /\ [][PanelNext]_vars

\* ------------------------------------------------------- the users' cache
UserInfo(u) == [id |-> u]

fetchUserNoRecord(u) ==
  /\ userTries[u] < MaxTries
  /\ userReqs' = [userReqs EXCEPT ![u] = @ + 1]
  /\ userTries' = [userTries EXCEPT ![u] = @ + 1]
  /\ UNCHANGED <<fetchedUserIds, users>>
  /\ UNCHANGED <<feed, view, server, row, panel>>

\* fetchUser(userId): return if the id is in fetchedUserIds; otherwise add it
\* and send the GET.
fetchUser(u) ==
  /\ userTries[u] < MaxTries
  /\ IF u \in fetchedUserIds
       THEN UNCHANGED userCache
       ELSE /\ fetchedUserIds' = fetchedUserIds \cup {u}
            /\ userReqs' = [userReqs EXCEPT ![u] = @ + 1]
            /\ userTries' = [userTries EXCEPT ![u] = @ + 1]
            /\ UNCHANGED users
  /\ UNCHANGED <<feed, view, server, row, panel>>

\* .then: setUsers((prev) => ({ ...prev, [userId]: {...} }))
UserResolves(u) ==
  /\ userReqs[u] > 0
  /\ userReqs' = [userReqs EXCEPT ![u] = @ - 1]
  /\ users' = [x \in DOMAIN users \cup {u} |-> IF x = u THEN UserInfo(u) ELSE users[x]]
  /\ UNCHANGED <<fetchedUserIds, userTries>>
  /\ UNCHANGED <<feed, view, server, row, panel>>

\* .catch: fetchedUserIds.current.delete(userId)
UserFails(u) ==
  /\ userReqs[u] > 0
  /\ userReqs' = [userReqs EXCEPT ![u] = @ - 1]
  /\ fetchedUserIds' = fetchedUserIds \ {u}
  /\ UNCHANGED <<users, userTries>>
  /\ UNCHANGED <<feed, view, server, row, panel>>

UsersNext ==
  \/ \E u \in UserIds : fetchUser(u)
  \/ \E u \in UserIds : UserResolves(u)
  \/ \E u \in UserIds : UserFails(u)

SpecUsers == Init /\ [][UsersNext]_vars

\* ---------------------------------------------------------------- claims
IdSeq(s) == [i \in 1..Len(s) |-> s[i].id]

IsDistinct(s) == Cardinality({s[i] : i \in 1..Len(s)}) = Len(s)

SameContent(a, b) ==
  a.text = b.text /\ a.senderName = b.senderName /\ a.sentAt = b.sentAt

PushActive == connState = "open" /\ listenerReg

PollingActive == timers # {}

\* C1: no two entries of the de-duplicating buffer share an id, also after a
\* poll result that lists the same id more than once.
C1_UniqueIds == IsDistinct(IdSeq(telegramMsgs))

\* C2: the buffer never holds more than 200 entries, in either source file,
\* after any push append and any poll append of any size.
C2_LengthBound == Len(telegramMsgs) <= Capacity /\ Len(pageMsgs) <= Capacity

\* C2 witness: more than 200 candidates were appended and the buffers are full.
C2_Overflowed ==
  /\ Len(offered) > Capacity
  /\ Len(telegramMsgs) = Capacity
  /\ Len(pageMsgs) = Capacity

\* C3: when the N > 200 candidates appended so far have pairwise distinct ids,
\* the buffer is exactly the last 200 of them, in the order they were appended.
C3_LastCapacity ==
  (IsDistinct(offered) /\ Len(offered) > Capacity)
    => IdSeq(telegramMsgs) = SubSeq(offered, Len(offered) - Capacity + 1, Len(offered))

\* C3 witness: more than 200 distinct ids arrived, in a batch and by push, and
\* the oldest were evicted.
C3_EvictedOldest ==
  /\ IsDistinct(offered)
  /\ Len(offered) > Capacity
  /\ nonce > 0
  /\ telegramMsgs[1].id # offered[1]

\* C4: once the cleanup of the feed effect has run, the buffer is never
\* mutated again; in particular a poll fetch that settles after the cleanup
\* leaves the buffer as it was.
C4_NoMutationAfterTeardown ==
  [][(tornDown /\ inflight' < inflight) => telegramMsgs' = telegramMsgs]_vars

\* C5: once the cleanup has run, no polling interval exists in any later state.
C5_NoTimerAfterTeardown == tornDown => timers = {}

\* C6: once the cleanup has run, the TelegramMessage listener is not
\* registered on the connection in any later state.
C6_NoListenerAfterTeardown == tornDown => ~listenerReg

\* C7: a message without a server id that was delivered by push and is then
\* returned by a poll is in the buffer once: never both under the id the push
\* gave it and under the id the poll gives it.
C7_PushThenPollOnce ==
  \A i, j \in 1..Len(telegramMsgs) :
    (telegramMsgs[i].id[1] = "random" /\ telegramMsgs[j].id[1] = "composite")
      => ~SameContent(telegramMsgs[i], telegramMsgs[j])

\* C8: from the settling of the handshake until the cleanup, exactly one
\* transport is active: the open connection with its listener and no interval,
\* or an interval and a connection that is not open.
C8_ExactlyOneTransport ==
  (setupPc # "start" /\ ~tornDown)
    => \/ PushActive /\ ~PollingActive
       \/ PollingActive /\ connState # "open"

\* C8 witness: both cases happened in one run; the connection was open, has
\* closed, and the interval runs with a fetch in flight.
C8_FellBackToPolling ==
  /\ setupPc = "done"
  /\ connState = "closed"
  /\ ~tornDown
  /\ PollingActive
  /\ inflight > 0

\* C9: after a failed handshake the interval is active in every state until
\* the cleanup runs: it is started by the step that handles the failure, and
\* nothing else stops it.
C9_PollingAfterFailure ==
  (setupPc = "failed" /\ ~tornDown) => (pollTimer # Null /\ pollTimer \in timers)

\* C9 witness: the handshake failed, polls have delivered messages, and the
\* interval is still there.
C9_PollingDelivered ==
  /\ setupPc = "failed"
  /\ ~tornDown
  /\ nUpdates = MaxUpdates
  /\ Len(telegramMsgs) > 0
  /\ pollTimer \in timers

\* C10: the step in which an open connection closes (before the cleanup) ends
\* with the polling interval started.
C10_CloseStartsPolling ==
  [][(connState = "open" /\ connState' = "closed" /\ ~tornDown)
       => (pollTimer' # Null /\ pollTimer' \in timers')]_vars

\* C10 witness: the connection closed while GetOnlineCount was pending, and
\* the interval exists.
C10_ClosedAndPolling ==
  /\ connState = "closed"
  /\ setupPc = "invoke"
  /\ ~tornDown
  /\ pollTimer \in timers

\* C11: at most one polling interval exists at any time, and a call of
\* startTelegramPolling while one exists (a close notification that follows
\* another, or follows a failed handshake) leaves it as it is.
C11_SingleTimer ==
  [][/\ Cardinality(timers') <= 1
     /\ (nCloseNotes' > nCloseNotes /\ pollTimer # Null)
          => (pollTimer' = pollTimer /\ timers' = timers)]_vars

\* C11 witness: a second close notification arrived while the interval of the
\* first was running, and that interval is still the only one.
C11_StartedTwice ==
  /\ nCloseNotes >= 2
  /\ ~tornDown
  /\ timers = {pollTimer}
  /\ nextTimer = 2

\* C12: a poll fetch that fails changes neither the buffer nor the interval.
C12_FailureIsHarmless ==
  [][nFails' > nFails
       => /\ telegramMsgs' = telegramMsgs
          /\ timers' = timers
          /\ pollTimer' = pollTimer]_vars

\* C12 witness: after two failed fetches the interval has fired again and a
\* new fetch is in flight.
C12_RetriedAfterFailures ==
  /\ nFails >= 2
  /\ inflight > 0
  /\ ~tornDown
  /\ pollTimer \in timers

InPollingMode == setupPc = "failed" \/ connState = "closed"

\* C13: once in polling mode, the effect never starts a handshake again, the
\* connection never opens again, and no step but the cleanup removes the
\* polling interval.
C13_StaysInPollingMode ==
  [][InPollingMode
       => /\ setupPc' # "start"
          /\ connState' \notin {"connecting", "open"}
          /\ (tornDown' = tornDown => timers \subseteq timers')]_vars

\* C13 witness: the connection closed, GetOnlineCount settled afterwards, polls
\* failed and delivered, and the interval is still running.
C13_StillPolling ==
  /\ connState = "closed"
  /\ setupPc = "done"
  /\ ~tornDown
  /\ nFails > 0
  /\ Len(telegramMsgs) > 0
  /\ pollTimer \in timers

\* The view count of ad e in the list a.
CountOf(a, e) == a[CHOOSE i \in 1..Len(a) : a[i].id = e].viewCount

Clicked == nClicks' > nClicks

ClickedAd == posts'[Len(posts')].id

Settled == Len(posts') < Len(posts)

C15_ServerWins ==
  [][(Settled /\ lastResponse'.ok /\ lastResponse'.data # <<>>)
       => CountOf(ads', lastResponse'.adId) = lastResponse'.data[1]]_vars

\* C15 witness: the server answered a count lower than the one the ad had when
\* it was clicked, and the ad now has the server's count.
C15_LoweredByServer ==
  /\ lastResponse.ok
  /\ lastResponse.data # <<>>
  /\ lastResponse.data[1] < lastResponse.sent
  /\ CountOf(ads, lastResponse.adId) = lastResponse.data[1]

C17_FlashCounts ==
  [][/\ Clicked =>
          \A e \in AdIds :
            FlashOf(flashCounts', e) =
              FlashOf(flashCounts, e) + (IF e = ClickedAd THEN 1 ELSE 0)
     /\ ~Clicked => flashCounts' = flashCounts]_vars

\* C17 witness: an ad was clicked twice, the POSTs failed, and its flash
\* counter is 2 while the other ad's is 0.
C17_TwoPulses ==
  /\ \E e \in AdIds :
       /\ FlashOf(flashCounts, e) = 2
       /\ \A f \in AdIds \ {e} : FlashOf(flashCounts, f) = 0
  /\ Len(ads) = 2
  /\ posts = <<>>
  /\ ~lastResponse.ok

Occurrences(s, id) == Cardinality({i \in 1..Len(s) : s[i].id = id})

ExplicitIds(ids) == {ids[k] : k \in {j \in 1..Len(ids) : ids[j][1] = "num"}}

\* C18: messages with different explicit ids are all kept, whatever their
\* content and whether they came by push or by poll: as long as nothing has
\* been trimmed for capacity, every explicit id handed to an updater is in the
\* buffer.
C18_DistinctIdsKept ==
  Len(offered) <= Capacity => ExplicitIds(offered) \subseteq Ids(telegramMsgs)

\* C18 witness: two entries with equal sender, text and timestamp and the ids
\* 1 and 2, one appended by a push and one by a poll.
C18_TwinsKept ==
  /\ nonce = 1
  /\ nUpdates = 2
  /\ Len(telegramMsgs) = 2
  /\ Ids(telegramMsgs) = {<<"num", 1>>, <<"num", 2>>}
  /\ SameContent(telegramMsgs[1], telegramMsgs[2])

\* The place at which an id was first handed to an updater.
FirstSeen(id) ==
  CHOOSE k \in 1..Len(offered) :
    offered[k] = id /\ \A l \in 1..(k - 1) : offered[l] # id

\* C19: the entries of the buffer are in the order in which their ids were
\* first seen (stated for neighbours, which gives it for every pair).
C19_FirstSeenOrder ==
  \A i \in 1..(Len(telegramMsgs) - 1) :
    FirstSeen(telegramMsgs[i].id) <= FirstSeen(telegramMsgs[i + 1].id)

PollApplied == inflight' < inflight /\ nUpdates' > nUpdates

PolledIds == SubSeq(offered', Len(offered) + 1, Len(offered'))

\* C20: when the result of a poll is applied and contains an explicit id that
\* entered the buffer while the fetch was in flight, the buffer holds that id
\* exactly once afterwards (nothing being trimmed for capacity in that step).
C20_PollAddsNoCopy ==
  [][PollApplied =>
       \A x \in ExplicitIds(PolledIds) :
         (/\ Occurrences(telegramMsgs, x) = 1
          /\ x \notin Ids(issuedPrev)
          /\ Len(telegramMsgs) + Len(PolledIds) <= Capacity)
           => Occurrences(telegramMsgs', x) = 1]_vars

\* C20 witness: the fetch was issued on an empty buffer, id 1 was pushed while
\* it was in flight, the result with id 1 was applied, and id 1 is there once.
C20_RaceSettled ==
  /\ inflight = 0
  /\ issuedPrev = <<>>
  /\ nonce = 1
  /\ offered = <<<<"num", 1>>, <<"num", 1>>>>
  /\ Occurrences(telegramMsgs, <<"num", 1>>) = 1
  /\ pageMsgs # <<>>
  /\ pageMsgs[1].id[1] = "indexed"

\* The ids handed to the updater in this step.
Candidates == SubSeq(offered', Len(offered) + 1, Len(offered'))

\* C21: a push event or a poll result all of whose ids are already in the
\* buffer leaves the buffer as it is: the updater returns the state it was
\* given, with the same entries in the same order.
C21_NothingAdmitted ==
  [][(nUpdates' > nUpdates
        /\ \A k \in 1..Len(Candidates) : Candidates[k] \in Ids(telegramMsgs))
       => telegramMsgs' = telegramMsgs]_vars

\* C21 witness: the second of two appends (one of them a push) offered only
\* ids the buffer had, and the buffer holds fewer entries than were offered.
C21_OfferedAgain ==
  /\ nUpdates = 2
  /\ nonce = 1
  /\ Len(telegramMsgs) >= 1
  /\ Len(offered) > Len(telegramMsgs)
  /\ \A k \in 1..Len(offered) : Occurrences(telegramMsgs, offered[k]) = 1

\* C22: an interval is started only by a step that ends with the handshake
\* failed or the connection closed, an interval exists only in such states,
\* and a poll fetch is issued only when the handshake is no longer pending and
\* the connection is not open.
C22_PollingOnlyAfterPushLost ==
  [][/\ timers' # {} => connState' \in {"failed", "closed"}
     /\ inflight' > inflight => connState \in {"failed", "closed"}]_vars

\* C22 witness: the connection was open and delivered a message, it closed
\* once, and the first poll fetch is in flight.
C22_PollAfterClose ==
  /\ connState = "closed"
  /\ nCloseNotes = 1
  /\ nonce = 1
  /\ inflight = 1
  /\ nFails = 0
  /\ ~tornDown

\* C23: in every run of the feed effect in which the handshake settles and
\* the cleanup never runs, a state is reached where push is active or polling
\* is active.
C23_EventuallyTransport == []~tornDown => <>(PushActive \/ PollingActive)

\* C23 witness: the handshake failed, the cleanup has not run, and the
\* interval is the first thing that happened: nothing was delivered yet.
C23_PollingReached ==
  /\ setupPc = "failed"
  /\ ~tornDown
  /\ PollingActive
  /\ inflight = 0
  /\ nUpdates = 0
  /\ nFails = 0

\* C24: in src/src/app/page.tsx, when the result of a poll is applied and
\* the capacity evicts nothing, every entry the buffer held before the step
\* is in the buffer after it, under the same id or another.
C24_PagePollKeepsEarlier ==
  [][(PollApplied /\ mounted /\ Len(pageMsgs) + Len(Candidates) <= Capacity)
       => \A i \in 1..Len(pageMsgs) :
            \E j \in 1..Len(pageMsgs') : SameContent(pageMsgs'[j], pageMsgs[i])]_vars

\* C25: once the server's list has stopped changing, there is a tick after
\* which no poll changes the buffer, whatever the length of the list.
C25_BufferSettles == <>[][telegramMsgs' = telegramMsgs]_vars

\* C26: a step that changes the flashCount of a row leaves the row flashing,
\* and a 2000 ms timeout that fires while the row shows the flash of a click
\* is the timeout scheduled for that click (the latest one), not one left
\* over from an earlier click.
C26_FlashOfEachClick ==
  [][\A e \in AdIds :
       /\ FlashOf(flashCounts', e) # FlashOf(flashCounts, e) => isFlashing'[e]
       /\ (/\ Len(flashTimers'[e]) < Len(flashTimers[e])
           /\ isFlashing[e]
           /\ flashColor[e] = "blue")
            => Head(flashTimers[e]) = prevFlash[e]]_vars

Confirmed == Settled /\ lastResponse'.ok

\* C27: the step of a view confirmation for ad e keeps the ads in their
\* order, leaves every other ad as it was, and sets the count of e to the
\* value this response carries (its viewCount, or the count its click saw
\* plus one), whatever other POSTs for e are in flight or have settled: so
\* the count after several responses is that of the one that arrived last.
C27_ConfirmationIsLocal ==
  [][Confirmed =>
       /\ Len(ads') = Len(ads)
       /\ \A i \in 1..Len(ads) :
            /\ ads'[i].id = ads[i].id
            /\ ads[i].id # lastResponse'.adId => ads'[i] = ads[i]
       /\ CountOf(ads', lastResponse'.adId) =
            (IF lastResponse'.data = <<>> THEN lastResponse'.sent + 1
                                         ELSE lastResponse'.data[1])]_vars

\* C27 witness: two POSTs for the same ad were in flight together, one was
\* confirmed with a count other than the one the clicks saw, the other is
\* still pending, and a second ad is in the list.
C27_OneOfTwoConfirmed ==
  /\ Len(ads) = 2
  /\ nClicks = 2
  /\ Len(posts) = 1
  /\ lastResponse.ok
  /\ posts[1].id = lastResponse.adId
  /\ posts[1].viewCount = lastResponse.sent
  /\ CountOf(ads, lastResponse.adId) # lastResponse.sent

\* C28: a view confirmation without a viewCount (that follows no response
\* with one) raises the local count of its ad by exactly one, also when the
\* click was made before an earlier response arrived.
C28_EachConfirmationAddsOne ==
  [][(Confirmed /\ lastResponse'.data = <<>> /\ lastResponse.data = <<>>)
       => CountOf(ads', lastResponse'.adId) = CountOf(ads, lastResponse'.adId) + 1]_vars

\* C29: while the yesterday tab is active and a history fetch is in flight,
\* historyLoading is true; when no history fetch is in flight it is false.
C29_LoadingWhileInFlight ==
  /\ (activeTab = "yesterday" /\ historyFetches > 0) => historyLoading
  /\ historyFetches = 0 => ~historyLoading

\* C30: no user id ever has two requests in flight; a request is issued only
\* for an id with none in flight and no user loaded; an id leaves
\* fetchedUserIds only in the step in which its request fails, and every
\* failing step removes it, so that the next call sends a request again.
C30_OneRequestPerUser ==
  [][\A u \in UserIds :
       /\ userReqs'[u] <= 1
       /\ userTries'[u] > userTries[u] => (userReqs[u] = 0 /\ u \notin DOMAIN users)
       /\ (u \in fetchedUserIds /\ u \notin fetchedUserIds')
            => (userReqs'[u] < userReqs[u] /\ users' = users)
       /\ (userReqs'[u] < userReqs[u] /\ u \notin DOMAIN users')
            => u \notin fetchedUserIds']_vars

\* C30 witness: the request of one user failed and was sent again, while
\* another user was loaded at the first attempt.
C30_RetriedAfterFailure ==
  \E u, v \in UserIds :
    /\ userTries[u] = 2
    /\ userReqs[u] = 1
    /\ u \in fetchedUserIds
    /\ u \notin DOMAIN users
    /\ v \in DOMAIN users
    /\ userTries[v] = 1

====
